---- MODULE Spec2Model ----
(***************************************************************************)
(* A model of penrose's src/helpers.rs:                                    *)
(*   keycodes_from_xmodmap  builds the name -> keycode table from the text *)
(*                          printed by `xmodmap -pke`;                     *)
(*   parse_key_binding      turns a pattern such as "M-S-j" into a         *)
(*                          (mask, code) pair against that table;          *)
(*   str_prop / atom_prop   resolve an atom and fetch a window property    *)
(*                          over an X connection.                          *)
(*                                                                         *)
(* Text is modelled as sequences of one-character strings.  The output of  *)
(* xmodmap is represented by its lines, and each line by its               *)
(* whitespace-separated words (what lines() and split_whitespace() yield). *)
(***************************************************************************)
EXTENDS Integers, Sequences, FiniteSets, TLC

VARIABLES
    xmodmap,      \* what process::Command::new("xmodmap").output() gave
    codemap,      \* outcome of keycodes_from_xmodmap
    known_codes,  \* the CodeMap handed to parse_key_binding
    pattern,      \* the pattern handed to parse_key_binding
    binding,      \* outcome of parse_key_binding
    host,         \* byte order of the machine the client runs on
    atoms,        \* X server: the interned atom names, in order of creation
    call,         \* the last str_prop / atom_prop call
    requests,     \* the requests that call sent, each with its reply
    result        \* what that call returned

vars == <<xmodmap, codemap, known_codes, pattern, binding, host, atoms, call, requests, result>>

----------------------------------------------------------------------------
(* Bounds of the model *)

\* lines in one xmodmap dump
MaxLines == 2
\* symbolic names on one well-formed line
MaxNames == 2
\* characters in one binding pattern
MaxPatLen == 5
\* bytes in one property payload
MaxBytes == 5

----------------------------------------------------------------------------
(* Generic helpers *)

SeqsUpTo(S, n) == UNION {[1..k -> S] : k \in 0..n}

EmptyMap == [x \in {} |-> 0]

Range(s) == {s[i] : i \in DOMAIN s}

\* The resolver before any call
PredefinedAtoms == <<"WM_NAME">>
NoCall == [fn |-> "none", id |-> 0, name |-> ""]
NoResult == [kind |-> "none", err |-> "", name |-> "", id |-> 0, text |-> <<>>, word |-> <<0, 0, 0, 0>>]

----------------------------------------------------------------------------
(* str::parse::<u8>(): optional leading "+", then decimal digits, each step *)
(* checked against overflow of u8.  -1 stands for Err(ParseIntError).      *)

U8Max == 255

IsDigit(c) == c \in {"0", "1", "2", "3", "4", "5", "6", "7", "8", "9"}

DigitVal(c) ==
    CASE c = "0" -> 0 [] c = "1" -> 1 [] c = "2" -> 2 [] c = "3" -> 3
      [] c = "4" -> 4 [] c = "5" -> 5 [] c = "6" -> 6 [] c = "7" -> 7
      [] c = "8" -> 8 [] c = "9" -> 9

RECURSIVE ParseDigits(_, _)
ParseDigits(s, acc) ==
    IF s = <<>> THEN acc
    ELSE IF ~IsDigit(Head(s)) THEN -1
    ELSE IF acc * 10 + DigitVal(Head(s)) > U8Max THEN -1
    ELSE ParseDigits(Tail(s), acc * 10 + DigitVal(Head(s)))

ParseU8(tok) ==
    IF tok = <<>> THEN -1
    ELSE IF tok = <<"+">> \/ tok = <<"-">> THEN -1
    ELSE IF Head(tok) = "+" THEN ParseDigits(Tail(tok), 0)
    ELSE ParseDigits(tok, 0)

----------------------------------------------------------------------------
(* keycodes_from_xmodmap *)

\* an insert that keeps the entry already present
InsertKeepFirst(m, name, code) ==
    IF name \in DOMAIN m THEN m
    ELSE [n \in DOMAIN m \cup {name} |-> IF n = name THEN code ELSE m[n]]

\* HashMap::insert as used by collect(): a later pair overwrites an earlier one
Insert(m, name, code) ==
    [n \in DOMAIN m \cup {name} |-> IF n = name THEN code ELSE m[n]]

RECURSIVE InsertAll(_, _, _)
InsertAll(m, names, code) ==
    IF names = <<>> THEN m
    ELSE InsertAll(Insert(m, Head(names), code), Tail(names), code)

\* a closure that passes over the lines it cannot read
LineSkipMalformed(words) ==
    IF Len(words) < 2 \/ ParseU8(words[2]) < 0
    THEN [ok |-> TRUE, key_code |-> 0, names |-> <<>>]
    ELSE [ok |-> TRUE, key_code |-> ParseU8(words[2]),
          names |-> SubSeq(words, 4, Len(words))]

\* The closure of flat_map for one line: words.nth(1).unwrap().parse().unwrap(),
\* then words.skip(1) as the names.  ok = FALSE is a panic of either unwrap.
Line(words) ==
    IF Len(words) < 2 THEN [ok |-> FALSE, key_code |-> 0, names |-> <<>>]
    ELSE IF ParseU8(words[2]) < 0 THEN [ok |-> FALSE, key_code |-> 0, names |-> <<>>]
    ELSE [ok |-> TRUE, key_code |-> ParseU8(words[2]),
          names |-> SubSeq(words, 4, Len(words))]

\* lines().flat_map(..).collect::<CodeMap>(): lines are consumed in order
RECURSIVE Collect(_, _)
Collect(lines, m) ==
    IF lines = <<>> THEN [status |-> "ok", map |-> m]
    ELSE IF ~Line(Head(lines)).ok THEN [status |-> "panic", map |-> EmptyMap]
    ELSE Collect(Tail(lines),
                 InsertAll(m, Line(Head(lines)).names, Line(Head(lines)).key_code))

KeycodesOf(o) ==
    CASE o.kind = "spawn_err" -> [status |-> "die", map |-> EmptyMap]
      [] o.kind = "bad_utf8"  -> [status |-> "die", map |-> EmptyMap]
      [] o.kind = "text"      -> Collect(o.lines, EmptyMap)

\* The words the dumps are made of
W_keycode == <<"k", "e", "y", "c", "o", "d", "e">>
W_eq == <<"=">>
NameWords == {<<"a">>, <<"A">>}
CodeWords == {<<"7">>, <<"4", "4">>}

WellFormedLines ==
    {<<W_keycode, c, W_eq>> \o ns : c \in CodeWords, ns \in SeqsUpTo(NameWords, MaxNames)}

OddLines ==
    { <<>>,
      <<W_keycode>>,
      <<W_keycode, <<"7">>>>,
      <<W_keycode, <<"2", "5", "5">>, W_eq, <<"a">>>>,
      <<W_keycode, <<"2", "5", "6">>, W_eq, <<"a">>>>,
      <<W_keycode, <<"+", "7">>, W_eq, <<"A">>>>,
      <<W_keycode, <<"0", "0", "7">>, W_eq, <<"A">>>>,
      <<W_keycode, <<"-", "7">>, W_eq, <<"a">>>>,
      <<W_keycode, <<"7", "x">>, W_eq, <<"a">>>>,
      <<W_keycode, <<"a">>, W_eq, <<"a">>>>,
      <<W_keycode, W_eq, <<"7">>, <<"a">>>>,
      <<<<"k", "e", "y">>, <<"4", "4">>, W_eq, <<"a">>>>,
      <<W_keycode, <<"4", "4">>, <<"a">>, <<"A">>>>,
      <<W_keycode, <<"4", "4">>, <<"a">>>> }

Lines == WellFormedLines \cup OddLines

Outputs ==
    {[kind |-> "spawn_err", lines |-> <<>>], [kind |-> "bad_utf8", lines |-> <<>>]}
      \cup {[kind |-> "text", lines |-> d] : d \in SeqsUpTo(Lines, MaxLines)}

----------------------------------------------------------------------------
(* Statements about keycodes_from_xmodmap *)

DigitChar(d) ==
    CASE d = 0 -> "0" [] d = 1 -> "1" [] d = 2 -> "2" [] d = 3 -> "3"
      [] d = 4 -> "4" [] d = 5 -> "5" [] d = 6 -> "6" [] d = 7 -> "7"
      [] d = 8 -> "8" [] d = 9 -> "9"

\* the decimal numeral of n, written out
RECURSIVE Dec(_)
Dec(n) == IF n < 10 THEN <<DigitChar(n)>> ELSE Dec(n \div 10) \o <<DigitChar(n % 10)>>

\* the numerals of 0..255
Numerals == [n \in 0..U8Max |-> Dec(n)]

Unsigned(tok) == IF tok # <<>> /\ Head(tok) = "+" THEN Tail(tok) ELSE tok

RECURSIVE Unpadded(_)
Unpadded(tok) == IF Len(tok) > 1 /\ Head(tok) = "0" THEN Unpadded(Tail(tok)) ELSE tok

\* tok is a numeral of n: the decimal digits of n, possibly zero-padded and
\* possibly preceded by a plus sign
NumeralOf(tok, n) == Unpadded(Unsigned(tok)) = Numerals[n]

IsU8Numeral(tok) == \E n \in 0..U8Max : NumeralOf(tok, n)

U8Of(tok) == CHOOSE n \in 0..U8Max : NumeralOf(tok, n)

\* `keycode <N> = <name1> <name2> ...`
SchemaLine(l) ==
    /\ Len(l) >= 3
    /\ l[1] = W_keycode
    /\ IsU8Numeral(l[2])
    /\ l[3] = W_eq

NamesOn(l) == {l[j] : j \in 4..Len(l)}

Listed(ls) == UNION {NamesOn(ls[i]) : i \in DOMAIN ls}

LastListing(ls, n) == CHOOSE i \in DOMAIN ls :
    /\ n \in NamesOn(ls[i])
    /\ \A j \in DOMAIN ls : n \in NamesOn(ls[j]) => j <= i

KeymapRead == codemap.status # "none" /\ xmodmap.kind = "text"

\* C1: on a dump made only of `keycode <N> = <names...>` lines the table's keys
\* are exactly the names listed on some line, and every name maps to the
\* keycode of the last line that lists it.
C1_LastWriteWins ==
    (KeymapRead /\ \A i \in DOMAIN xmodmap.lines : SchemaLine(xmodmap.lines[i])) =>
        /\ codemap.status = "ok"
        /\ DOMAIN codemap.map = Listed(xmodmap.lines)
        /\ \A n \in Listed(xmodmap.lines) :
              codemap.map[n] = U8Of(xmodmap.lines[LastListing(xmodmap.lines, n)][2])

\* a name listed on two schema lines with different keycodes, and on the first
\* of them together with a name the second does not list
C1_Witness ==
    /\ KeymapRead /\ codemap.status = "ok"
    /\ xmodmap.lines = << <<W_keycode, <<"7">>, W_eq, <<"a">>, <<"A">>>>,
                          <<W_keycode, <<"4", "4">>, W_eq, <<"a">>>> >>
    /\ codemap.map[<<"a">>] = 44
    /\ codemap.map[<<"A">>] = 7

\* The line shapes C2 lists as malformed
NotInSchema(l) ==
    \/ Len(l) < 2
    \/ l[1] # W_keycode
    \/ ~IsU8Numeral(l[2])
    \/ (Len(l) >= 3 /\ l[3] # W_eq)

\* C2 as stated: a dump holding a line outside the schema never yields a table.
C2_AsStated ==
    (KeymapRead /\ \E i \in DOMAIN xmodmap.lines : NotInSchema(xmodmap.lines[i])) =>
        codemap.status # "ok"

\* The lines the code cannot get a keycode from
Unparsable(l) == Len(l) < 2 \/ ~IsU8Numeral(l[2])

\* C2, amended: the fatal lines are exactly those with fewer than two words or
\* whose second word is no u8 numeral; a dump holding one aborts and yields no
\* table.  The first and third words are not looked at: with no such line a
\* table is returned, and every word after the third of every line is a key.
C2_FatalLines ==
    KeymapRead =>
        IF \E i \in DOMAIN xmodmap.lines : Unparsable(xmodmap.lines[i])
        THEN codemap.status = "panic" /\ codemap.map = EmptyMap
        ELSE codemap.status = "ok" /\ DOMAIN codemap.map = Listed(xmodmap.lines)

\* a line whose first word is not `keycode` passes, the short line after it aborts
C2_Witness ==
    /\ KeymapRead /\ codemap.status = "panic"
    /\ xmodmap.lines = << <<<<"k", "e", "y">>, <<"4", "4">>, W_eq, <<"a">>>>,
                          <<W_keycode>> >>

----------------------------------------------------------------------------
(* The builder as a process *)

NotRun == [status |-> "none", map |-> EmptyMap]

KeycodesFromXmodmap ==
    /\ codemap.status = "none"
    /\ codemap' = KeycodesOf(xmodmap)
    /\ UNCHANGED <<xmodmap, known_codes, pattern, binding, host, atoms, call, requests, result>>

InitKeymap ==
    /\ xmodmap \in Outputs
    /\ codemap = NotRun
    /\ known_codes = EmptyMap
    /\ pattern = <<>>
    /\ binding = [status |-> "none", mask |-> 0, code |-> 0]
    /\ host = "little"
    /\ atoms = PredefinedAtoms
    /\ call = NoCall
    /\ requests = <<>>
    /\ result = NoResult

NextKeymap == KeycodesFromXmodmap

SpecKeymap == InitKeymap /\ [][NextKeymap]_vars

----------------------------------------------------------------------------
(* parse_key_binding *)

\* xcb's modifier bits
MOD_MASK_SHIFT == 1
MOD_MASK_CONTROL == 4
MOD_MASK_1 == 8
MOD_MASK_4 == 64
\* width of KeyCode.mask
MaskBits == 16

RECURSIVE BitOr(_, _)
BitOr(a, b) ==
    IF a = 0 THEN b
    ELSE IF b = 0 THEN a
    ELSE (IF a % 2 = 1 \/ b % 2 = 1 THEN 1 ELSE 0) + 2 * BitOr(a \div 2, b \div 2)

\* s.split("-"): the segments between the dashes; "" gives one empty segment
RECURSIVE SplitFrom(_, _, _)
SplitFrom(s, cur, acc) ==
    IF s = <<>> THEN Append(acc, cur)
    ELSE IF Head(s) = "-" THEN SplitFrom(Tail(s), <<>>, Append(acc, cur))
    ELSE SplitFrom(Tail(s), Append(cur, Head(s)), acc)

Split(s) == SplitFrom(s, <<>>, <<>>)

\* a match whose last arm contributes no bit
ModBitIgnoreUnknown(s) ==
    CASE s = <<"A">> -> MOD_MASK_1
      [] s = <<"M">> -> MOD_MASK_4
      [] s = <<"S">> -> MOD_MASK_SHIFT
      [] s = <<"C">> -> MOD_MASK_CONTROL
      [] OTHER -> 0

\* the match of the map closure; -1 stands for die!("invalid key binding prefix")
ModBit(s) ==
    CASE s = <<"A">> -> MOD_MASK_1
      [] s = <<"M">> -> MOD_MASK_4
      [] s = <<"S">> -> MOD_MASK_SHIFT
      [] s = <<"C">> -> MOD_MASK_CONTROL
      [] OTHER -> -1

\* a fold that adds
AccAdd(acc, v) == acc + v

\* the closure of fold
Acc(acc, v) == BitOr(acc, v)

\* parts.iter().map(..).fold(0, |acc, v| acc | v); -1 once a prefix has died
RECURSIVE Fold(_, _)
Fold(parts, acc) ==
    IF parts = <<>> THEN acc
    ELSE IF ModBit(Head(parts)) < 0 THEN -1
    ELSE Fold(Tail(parts), Acc(acc, ModBit(Head(parts))))

Absent == [status |-> "None", mask |-> 0, code |-> 0]
Died == [status |-> "die", mask |-> 0, code |-> 0]

\* the same function with the mask computed before the table is consulted
ParseKeyBindingMaskFirst(s, codes) ==
    LET all == Split(s)
        key == all[Len(all)]
        parts == SubSeq(all, 1, Len(all) - 1)
        mask == Fold(parts, 0)
    IN  IF mask < 0 THEN Died
        ELSE IF key \in DOMAIN codes
        THEN [status |-> "Some", mask |-> mask % (2 ^ MaskBits), code |-> codes[key]]
        ELSE Absent

ParseKeyBinding(s, codes) ==
    LET all == Split(s)
        key == all[Len(all)]
        parts == SubSeq(all, 1, Len(all) - 1)
        mask == Fold(parts, 0)
    IN  IF key \in DOMAIN codes
        THEN IF mask < 0 THEN Died
             ELSE [status |-> "Some", mask |-> mask % (2 ^ MaskBits), code |-> codes[key]]
        ELSE Absent

\* The tables the patterns are parsed against are tables the builder returns
Dump_jA == << <<W_keycode, <<"4", "4">>, W_eq, <<"j">>, <<"J">>>>,
              <<W_keycode, <<"3", "8">>, W_eq, <<"a">>, <<"A">>>> >>
Dump_jjSM == << <<W_keycode, <<"4", "5">>, W_eq, <<"j", "j">>, <<"S", "M">>>>,
                <<W_keycode, <<"4", "4">>, W_eq, <<"j">>>> >>
Dump_none == << >>

Tables == {Collect(d, EmptyMap).map : d \in {Dump_jA, Dump_jjSM, Dump_none}}

PatternChars == {"A", "M", "S", "C", "Q", "-", "j"}

Patterns == SeqsUpTo(PatternChars, MaxPatLen)

NotParsed == [status |-> "none", mask |-> 0, code |-> 0]

ParseKeyBindingCall ==
    /\ binding.status = "none"
    /\ \E s \in Patterns :
          /\ pattern' = s
          /\ binding' = ParseKeyBinding(s, known_codes)
    /\ UNCHANGED <<xmodmap, codemap, known_codes, host, atoms, call, requests, result>>

InitBinding ==
    /\ xmodmap = [kind |-> "text", lines |-> <<>>]
    /\ codemap = NotRun
    /\ known_codes \in Tables
    /\ pattern = <<>>
    /\ binding = NotParsed
    /\ host = "little"
    /\ atoms = PredefinedAtoms
    /\ call = NoCall
    /\ requests = <<>>
    /\ result = NoResult

NextBinding == ParseKeyBindingCall

SpecBinding == InitBinding /\ [][NextBinding]_vars

----------------------------------------------------------------------------
(* Statements about parse_key_binding *)

\* position of the last dash of p, 0 when it has none
LastDash(p) ==
    IF \E i \in DOMAIN p : p[i] = "-"
    THEN CHOOSE i \in DOMAIN p : p[i] = "-" /\ \A j \in DOMAIN p : p[j] = "-" => j <= i
    ELSE 0

\* what follows the last dash
FinalSegment(p) == SubSeq(p, LastDash(p) + 1, Len(p))

\* what precedes the last dash
PrefixPart(p) == SubSeq(p, 1, LastDash(p) - 1)

ModLetters == {"A", "M", "S", "C"}

\* every segment before the last dash is one of A, M, S, C: the prefix part is
\* a letter, dash, letter, ... , letter (or there is no dash at all)
PrefixesRecognized(p) ==
    \/ LastDash(p) = 0
    \/ /\ Len(PrefixPart(p)) % 2 = 1
       /\ \A i \in DOMAIN PrefixPart(p) :
             IF i % 2 = 1 THEN PrefixPart(p)[i] \in ModLetters ELSE PrefixPart(p)[i] = "-"

\* the distinct modifier letters before the last dash
ModsOf(p) == {PrefixPart(p)[i] : i \in DOMAIN PrefixPart(p)} \cap ModLetters

BitOf(c) == IF c = "A" THEN MOD_MASK_1 ELSE IF c = "M" THEN MOD_MASK_4
            ELSE IF c = "S" THEN MOD_MASK_SHIFT ELSE MOD_MASK_CONTROL

RECURSIVE SumBits(_)
SumBits(S) == IF S = {} THEN 0
              ELSE LET c == CHOOSE x \in S : TRUE IN BitOf(c) + SumBits(S \ {c})

Parsed == binding.status # "none"

\* C3: with a known key name and only A, M, S, C before it, the result is
\* Some(KeyCode) with the table's code and with the mask holding one bit per
\* distinct modifier present, whatever their order and repetition (0 for none).
C3_MaskOfDistinctModifiers ==
    (Parsed /\ FinalSegment(pattern) \in DOMAIN known_codes /\ PrefixesRecognized(pattern)) =>
        /\ binding.status = "Some"
        /\ binding.code = known_codes[FinalSegment(pattern)]
        /\ binding.mask = SumBits(ModsOf(pattern))

\* "S-M-j" parsed against a table with j -> 44: Super and Shift, code 44
C3_Witness ==
    /\ Parsed
    /\ pattern = <<"S", "-", "M", "-", "j">>
    /\ binding = [status |-> "Some", mask |-> MOD_MASK_4 + MOD_MASK_SHIFT, code |-> 44]

\* C4: a final segment that is no key of the table gives None, never an abort,
\* whatever precedes it.
C4_UnknownKeyIsNone ==
    (Parsed /\ FinalSegment(pattern) \notin DOMAIN known_codes) => binding.status = "None"

\* "Q--" : unrecognized and empty prefixes, empty key name
C4_Witness ==
    /\ Parsed
    /\ pattern = <<"Q", "-", "-">>
    /\ known_codes # EmptyMap
    /\ binding.status = "None"

\* C5: a known key name preceded by a segment outside A, M, S, C aborts.
C5_UnknownPrefixDies ==
    (Parsed /\ FinalSegment(pattern) \in DOMAIN known_codes /\ ~PrefixesRecognized(pattern)) =>
        binding.status = "die"

\* "M--j": an empty prefix segment before the known key j
C5_Witness ==
    /\ Parsed
    /\ pattern = <<"M", "-", "-", "j">>
    /\ <<"j">> \in DOMAIN known_codes
    /\ binding.status = "die"

----------------------------------------------------------------------------
(* The X server as str_prop and atom_prop see it *)

\* XCB_ATOM_NONE
ATOM_NONE == 0

PropNames == {"WM_NAME", "_NET_WM_NAME", "_NET_ACTIVE_WINDOW"}
Windows == {1, 2}

\* An unsigned integer of 8, 16 or 32 bits is written as its bytes, the most
\* significant first: <<1, 2, 3, 4>> is the u32 0x01020304.
Zero32 == <<0, 0, 0, 0>>

\* the values a property's items take, per format (bits per item)
Items8 == {<<104>>, <<195>>, <<169>>}
Items16 == {<<0, 104>>, <<195, 169>>}
Items32 == {Zero32, <<0, 0, 0, 39>>, <<1, 2, 3, 4>>}

AtomOf(at, name) == CHOOSE i \in DOMAIN at : at[i] = name

ErrReply == [ok |-> FALSE, atom |-> ATOM_NONE, format |-> 0, items |-> <<>>]
AtomReply(a) == [ok |-> TRUE, atom |-> a, format |-> 0, items |-> <<>>]
ValueReply(f, its) == [ok |-> TRUE, atom |-> ATOM_NONE, format |-> f, items |-> its]

\* InternAtom: the possible replies, each with the atoms the server holds
\* afterwards.  The request can fail; otherwise a known name gives its atom, an
\* unknown name gives XCB_ATOM_NONE under only_if_exists and a new atom without.
InternAtom(only_if_exists, name, at) ==
    {[reply |-> ErrReply, atoms |-> at]} \cup
    { IF name \in Range(at) THEN [reply |-> AtomReply(AtomOf(at, name)), atoms |-> at]
      ELSE IF only_if_exists THEN [reply |-> AtomReply(ATOM_NONE), atoms |-> at]
      ELSE [reply |-> AtomReply(Len(at) + 1), atoms |-> Append(at, name)] }

ItemsOf(f) == IF f = 8 THEN Items8 ELSE IF f = 16 THEN Items16 ELSE Items32

\* GetProperty with type AnyPropertyType: an error for a window that is gone or
\* for the atom None; otherwise the property's value in its stored format,
\* format 0 and no items when the window has no such property.
GetProperty(window, atom) ==
    IF atom = ATOM_NONE THEN {ErrReply}
    ELSE {ErrReply, ValueReply(0, <<>>)} \cup
         UNION {{ValueReply(f, its) : its \in SeqsUpTo(ItemsOf(f), MaxBytes \div (f \div 8))}
                   : f \in {8, 16, 32}}

----------------------------------------------------------------------------
(* A reply as the client reads it *)

Reverse(b) == [i \in 1..Len(b) |-> b[Len(b) + 1 - i]]

\* one item as it lies in the client's memory, in the byte order of the host
ItemBytes(v, order) == IF order = "little" THEN Reverse(v) ELSE v

RECURSIVE Flatten(_)
Flatten(ss) == IF ss = <<>> THEN <<>> ELSE Head(ss) \o Flatten(Tail(ss))

\* reply.value::<u8>(): the bytes of the value
ValueBytes(r, order) ==
    IF r.format = 0 THEN <<>>
    ELSE Flatten([i \in DOMAIN r.items |-> ItemBytes(r.items[i], order)])

\* reply.value_len(): the length of the value in items of its format
ValueLen(r) == Len(r.items)

\* four bytes read as a u32 in the byte order of the host
U32(b, order) == IF order = "little" THEN Reverse(b) ELSE b

\* reply.value::<u32>(): the whole 32-bit words of the value
ValueWords(r, order) ==
    [k \in 1..(Len(ValueBytes(r, order)) \div 4) |->
        U32(SubSeq(ValueBytes(r, order), 4 * k - 3, 4 * k), order)]

\* String::from_utf8: the check of core::str::from_utf8
Cont(x) == x \in 128..191

Second3(first, x) ==
    \/ first = 224 /\ x \in 160..191
    \/ first \in 225..236 /\ x \in 128..191
    \/ first = 237 /\ x \in 128..159
    \/ first \in 238..239 /\ x \in 128..191

Second4(first, x) ==
    \/ first = 240 /\ x \in 144..191
    \/ first \in 241..243 /\ x \in 128..191
    \/ first = 244 /\ x \in 128..143

RECURSIVE ValidUtf8(_)
ValidUtf8(b) ==
    IF b = <<>> THEN TRUE
    ELSE IF b[1] < 128 THEN ValidUtf8(Tail(b))
    ELSE IF b[1] \in 194..223
         THEN Len(b) >= 2 /\ Cont(b[2]) /\ ValidUtf8(SubSeq(b, 3, Len(b)))
    ELSE IF b[1] \in 224..239
         THEN Len(b) >= 3 /\ Second3(b[1], b[2]) /\ Cont(b[3])
              /\ ValidUtf8(SubSeq(b, 4, Len(b)))
    ELSE IF b[1] \in 240..244
         THEN Len(b) >= 4 /\ Second4(b[1], b[2]) /\ Cont(b[3]) /\ Cont(b[4])
              /\ ValidUtf8(SubSeq(b, 5, Len(b)))
    ELSE FALSE

----------------------------------------------------------------------------
(* str_prop and atom_prop *)

\* an atom_prop that lets the server create the atom
AtomPropInternCreates == FALSE

\* the only_if_exists argument of each intern_atom call
StrPropOnlyIfExists == FALSE
AtomPropOnlyIfExists == TRUE

\* a match that also stops at a reply holding no atom
FetchesKnownAtomOnly(ir) == ir.ok /\ ir.atom # ATOM_NONE

\* match interned_atom.get_reply(): only the Ok arm goes on to get_property
Fetches(ir) == ir.ok

Ok(text, word) ==
    [kind |-> "Ok", err |-> "", name |-> "", id |-> 0, text |-> text, word |-> word]
\* the Err values, each with the arguments its message is formatted from
Err(what, name, id) ==
    [kind |-> "Err", err |-> what, name |-> name, id |-> id, text |-> <<>>, word |-> Zero32]
\* the thread panics
Panic == [kind |-> "panic", err |-> "", name |-> "", id |-> 0, text |-> <<>>, word |-> Zero32]

\* what str_prop returns on the replies ir (intern_atom) and pr (get_property)
StrPropResult(id, name, ir, pr, order) ==
    IF ~ir.ok THEN Err("unable to fetch xcb atom", name, 0)
    ELSE IF ~pr.ok THEN Err("unable to fetch window property", "", 0)
    ELSE IF ~ValidUtf8(ValueBytes(pr, order)) THEN Err("invalid utf8 resonse from xcb", "", 0)
    ELSE Ok(ValueBytes(pr, order), Zero32)

\* atom_prop with a zero default for a value that holds no word
AtomPropResultDefaultZero(id, name, ir, pr, order) ==
    IF ~ir.ok THEN Err("unable to fetch xcb atom", name, 0)
    ELSE IF ~pr.ok THEN Err("unable to fetch window property", "", 0)
    ELSE IF ValueWords(pr, order) = <<>> THEN Ok(<<>>, Zero32)
    ELSE Ok(<<>>, ValueWords(pr, order)[1])

\* what atom_prop returns; value()[0] on a value of no whole word is an index
\* out of bounds
AtomPropResult(id, name, ir, pr, order) ==
    IF ~ir.ok THEN Err("unable to fetch xcb atom", name, 0)
    ELSE IF ~pr.ok THEN Err("unable to fetch window property", "", 0)
    ELSE IF ValueLen(pr) <= 0 THEN Err("property was empty", name, id)
    ELSE IF ValueWords(pr, order) = <<>> THEN Panic
    ELSE Ok(<<>>, ValueWords(pr, order)[1])

InternRequest(only_if_exists, name, reply) ==
    [req |-> "intern_atom", only_if_exists |-> only_if_exists, name |-> name,
     window |-> 0, atom |-> ATOM_NONE, reply |-> reply]

GetPropertyRequest(window, atom, reply) ==
    [req |-> "get_property", only_if_exists |-> FALSE, name |-> "",
     window |-> window, atom |-> atom, reply |-> reply]

StrProp ==
    \E id \in Windows, name \in PropNames :
      \E i \in InternAtom(StrPropOnlyIfExists, name, atoms) :
        /\ call = NoCall
        /\ call' = [fn |-> "str_prop", id |-> id, name |-> name]
        /\ atoms' = i.atoms
        /\ IF Fetches(i.reply)
           THEN \E pr \in GetProperty(id, i.reply.atom) :
                  /\ requests' = <<InternRequest(StrPropOnlyIfExists, name, i.reply),
                                   GetPropertyRequest(id, i.reply.atom, pr)>>
                  /\ result' = StrPropResult(id, name, i.reply, pr, host)
           ELSE /\ requests' = <<InternRequest(StrPropOnlyIfExists, name, i.reply)>>
                /\ result' = StrPropResult(id, name, i.reply, ErrReply, host)
        /\ UNCHANGED <<xmodmap, codemap, known_codes, pattern, binding, host>>

AtomProp ==
    \E id \in Windows, name \in PropNames :
      \E i \in InternAtom(AtomPropOnlyIfExists, name, atoms) :
        /\ call = NoCall
        /\ call' = [fn |-> "atom_prop", id |-> id, name |-> name]
        /\ atoms' = i.atoms
        /\ IF Fetches(i.reply)
           THEN \E pr \in GetProperty(id, i.reply.atom) :
                  /\ requests' = <<InternRequest(AtomPropOnlyIfExists, name, i.reply),
                                   GetPropertyRequest(id, i.reply.atom, pr)>>
                  /\ result' = AtomPropResult(id, name, i.reply, pr, host)
           ELSE /\ requests' = <<InternRequest(AtomPropOnlyIfExists, name, i.reply)>>
                /\ result' = AtomPropResult(id, name, i.reply, ErrReply, host)
        /\ UNCHANGED <<xmodmap, codemap, known_codes, pattern, binding, host>>

\* The caller takes the value returned; nothing of the call is kept (no cache),
\* and a call that panicked is not returned from.
Return ==
    /\ call # NoCall
    /\ result.kind \in {"Ok", "Err"}
    /\ call' = NoCall
    /\ requests' = <<>>
    /\ result' = NoResult
    /\ UNCHANGED <<xmodmap, codemap, known_codes, pattern, binding, host, atoms>>

InitProps ==
    /\ xmodmap = [kind |-> "text", lines |-> <<>>]
    /\ codemap = NotRun
    /\ known_codes = EmptyMap
    /\ pattern = <<>>
    /\ binding = NotParsed
    /\ host \in {"little", "big"}
    /\ atoms = PredefinedAtoms
    /\ call = NoCall
    /\ requests = <<>>
    /\ result = NoResult

NextProps == StrProp \/ AtomProp \/ Return

SpecProps == InitProps /\ [][NextProps]_vars

----------------------------------------------------------------------------
(* Statements about str_prop and atom_prop *)

Called == call.fn # "none"

IsAtomError(r) == r.kind = "Err" /\ r.err = "unable to fetch xcb atom"

\* C6 as stated: atom_prop on a name the server holds no atom for returns the
\* atom-resolution error and sends no get_property.
C6_AsStated ==
    (call.fn = "atom_prop" /\ call.name \notin Range(atoms)) =>
        /\ IsAtomError(result)
        /\ \A i \in DOMAIN requests : requests[i].req # "get_property"

\* C7 as stated: every call sends exactly intern_atom, then get_property.
C7_AsStated ==
    Called =>
        /\ Len(requests) = 2
        /\ requests[1].req = "intern_atom"
        /\ requests[2].req = "get_property"

\* C7, amended: every call sends intern_atom first; it then sends exactly one
\* get_property, for the atom of the reply and the window of the call, if and
\* only if intern_atom was answered by a reply; answered by an error, the call
\* returns the atom-resolution error after that one round trip.
C7_FetchOnlyAfterAtomReply ==
    Called =>
        /\ Len(requests) \in {1, 2}
        /\ requests[1].req = "intern_atom"
        /\ requests[1].name = call.name
        /\ IF requests[1].reply.ok
           THEN /\ Len(requests) = 2
                /\ requests[2].req = "get_property"
                /\ requests[2].atom = requests[1].reply.atom
                /\ requests[2].window = call.id
                /\ ~IsAtomError(result)
           ELSE /\ Len(requests) = 1
                /\ IsAtomError(result)

\* a call that ended after the one intern_atom round trip
C7_Witness ==
    /\ call.fn = "str_prop"
    /\ Len(requests) = 1
    /\ ~requests[1].reply.ok
    /\ IsAtomError(result)

\* number of bytes of a property value
PayloadBytes(r) == Len(r.items) * (r.format \div 8)

\* the first 32-bit word of a value of at least four bytes, from its items
FirstWord(r, order) ==
    CASE r.format = 32 -> r.items[1]
      [] r.format = 16 -> IF order = "little" THEN r.items[2] \o r.items[1]
                          ELSE r.items[1] \o r.items[2]
      [] r.format = 8  -> IF order = "little"
                          THEN r.items[4] \o r.items[3] \o r.items[2] \o r.items[1]
                          ELSE r.items[1] \o r.items[2] \o r.items[3] \o r.items[4]

\* C8: with both replies received, atom_prop returns Ok(first word) for a value
\* of at least one word, and the empty-property error, with the name and the
\* window id, for a value of length zero.
C8_FirstWordOrEmptyError ==
    (call.fn = "atom_prop" /\ Len(requests) = 2 /\ requests[2].reply.ok) =>
        /\ PayloadBytes(requests[2].reply) >= 4 =>
              /\ result.kind = "Ok"
              /\ result.word = FirstWord(requests[2].reply, host)
        /\ PayloadBytes(requests[2].reply) = 0 =>
              result = Err("property was empty", call.name, call.id)

\* a property of one 32-bit item read on a little-endian host
C8_Witness ==
    /\ call.fn = "atom_prop"
    /\ host = "little"
    /\ Len(requests) = 2
    /\ requests[2].reply = ValueReply(32, << <<1, 2, 3, 4>> >>)
    /\ result.kind = "Ok"
    /\ result.word = <<1, 2, 3, 4>>

\* C9 as stated: whatever the server answers, a call ends with Ok or Err.
C9_AsStated == Called => result.kind \in {"Ok", "Err"}

\* C10: a step of atom_prop leaves the server's atoms as they were; a step of
\* str_prop whose intern_atom is answered leaves the name interned; no atom is
\* ever dropped; and atom_prop on an interned name, once intern_atom is
\* answered, goes on to fetch the property under that name's atom.
C10_Step ==
    /\ SubSeq(atoms', 1, Len(atoms)) = atoms
    /\ call'.fn = "atom_prop" => atoms' = atoms
    /\ (call'.fn = "str_prop" /\ requests'[1].reply.ok) => call'.name \in Range(atoms')
    /\ (call'.fn = "atom_prop" /\ call'.name \in Range(atoms) /\ requests'[1].reply.ok) =>
          /\ Len(requests') = 2
          /\ requests'[2].req = "get_property"
          /\ requests'[2].atom # ATOM_NONE
          /\ atoms[requests'[2].atom] = call'.name

C10_AtomsFrame == [][C10_Step]_vars

\* atom_prop fetching under the atom of a name that only str_prop can have
\* interned
C10_Witness ==
    /\ call.fn = "atom_prop"
    /\ call.name = "_NET_WM_NAME"
    /\ "_NET_WM_NAME" \notin Range(PredefinedAtoms)
    /\ Len(requests) = 2
    /\ requests[2].atom # ATOM_NONE
    /\ atoms[requests[2].atom] = "_NET_WM_NAME"

====
